---- MODULE Spec2Model ----
(***************************************************************************)
(* Model of bot.py: the Nobitex quote fetcher (fetch_price_sync,           *)
(* to_int_price) and the polling / alerting loop (main, send_message).     *)
(*                                                                         *)
(* Optional[int] values are sequences: <<>> is None, <<v>> is the int v.   *)
(* A decimal value arriving in a JSON body is the integer number of        *)
(* 1/FracDen units it denotes (1157100.999 is 1157100 * FracDen + 999).    *)
(***************************************************************************)
EXTENDS Integers, Sequences, FiniteSets, TLC

\* ---------------------------------------------------------------- bounds
MaxDelta == 2
MaxBackoff == 2
MaxRaw == 2500
MaxChatLen == 3
MaxQuotes == 2

\* ------------------------------------------------------------- constants
INTERVAL_SECONDS == 60
\* THRESHOLD_PERCENT = 0.1 as the fraction ThresholdNum / ThresholdDen
ThresholdNum == 1
ThresholdDen == 10

FracDen == 10 * 10 * 10

\* quotes are taken around the price at which a move of two units is exactly
\* THRESHOLD_PERCENT
BasePrice == (2 * 100 * ThresholdDen) \div ThresholdNum

None == <<>>
Some(v) == <<v>>

Abs(x) == IF x < 0 THEN 0 - x ELSE x

\* ----------------------------------------------------- upstream responses
Prices == {0} \cup (BasePrice .. (BasePrice + MaxDelta))

RawAbsent == [k |-> "absent", v |-> 0]
RawNull == [k |-> "null", v |-> 0]
RawBad == [k |-> "bad", v |-> 0]
RawNum(n) == [k |-> "num", v |-> n]

\* the values a price field of the pair object can carry
RawLatest ==
  {RawAbsent, RawBad}
    \cup {RawNum(p * FracDen) : p \in Prices}
    \cup {RawNum(p * FracDen + (FracDen - 1)) : p \in Prices}
RawQuote == {RawAbsent, RawBad, RawNum(BasePrice * FracDen + (FracDen - 1))}

\* the values the backOff field of a body can carry
RawBackOff ==
  {RawAbsent, RawNull, RawBad} \cup {RawNum(b) : b \in (0 - 1) .. MaxBackoff}

NoBody ==
  [shape |-> "none", status |-> "absent", backOff |-> RawAbsent,
   stats |-> "absent", latest |-> RawAbsent, bestBuy |-> RawAbsent,
   bestSell |-> RawAbsent]

DictBodies ==
  {[shape |-> "dict", status |-> s, backOff |-> b, stats |-> st,
    latest |-> RawAbsent, bestBuy |-> RawAbsent, bestSell |-> RawAbsent] :
      s \in {"absent", "ok", "failed"}, b \in RawBackOff,
      st \in {"absent", "nondict", "nopair"}}
  \cup
  {[shape |-> "dict", status |-> s, backOff |-> b, stats |-> "pair",
    latest |-> l, bestBuy |-> bb, bestSell |-> bs] :
      s \in {"absent", "ok", "failed"}, b \in RawBackOff,
      l \in RawLatest, bb \in RawQuote, bs \in RawQuote}

Bodies ==
  {[NoBody EXCEPT !.shape = "nonjson"], [NoBody EXCEPT !.shape = "list"]}
    \cup DictBodies

\* what requests.get / requests.post can produce: a transport error, a
\* timeout, or an HTTP response with a status code and a body
Responses ==
  {[t |-> "neterr", code |-> 0, body |-> NoBody],
   [t |-> "timeout", code |-> 0, body |-> NoBody]}
  \cup {[t |-> "http", code |-> 200, body |-> b] : b \in Bodies}
  \cup {[t |-> "http", code |-> 500, body |-> [NoBody EXCEPT !.shape = "nonjson"]]}
  \cup {[t |-> "http", code |-> 429,
         body |-> [NoBody EXCEPT !.shape = "dict", !.status = "failed", !.backOff = b]] :
           b \in RawBackOff}

NoResp == [t |-> "none", code |-> 0, body |-> NoBody]

\* the largest float, on the scale of the model's prices: an int / int
\* quotient of this size or more raises OverflowError
FloatMax == 400

\* a quote such as "1e400": Decimal and int() accept it, and its distance
\* from any other price of the model is beyond FloatMax times that price
HugePrice == (FloatMax + 1) * (BasePrice + MaxDelta)

HugeResponse ==
  [t |-> "http", code |-> 200,
   body |-> [shape |-> "dict", status |-> "ok", backOff |-> RawAbsent,
             stats |-> "pair", latest |-> RawNum(HugePrice * FracDen),
             bestBuy |-> RawNum(BasePrice * FracDen),
             bestSell |-> RawNum(BasePrice * FracDen)]]

\* ------------------------------------------------------------ to_int_price
TruncateHalfUp(n) ==
  IF n >= 0 THEN (n + FracDen \div 2) \div FracDen
  ELSE 0 - (((0 - n) + FracDen \div 2) \div FracDen)

\* Decimal(str(x)).to_integral_value(ROUND_DOWN): the fraction is dropped,
\* toward zero
Truncate(n) == IF n >= 0 THEN n \div FracDen ELSE 0 - ((0 - n) \div FracDen)

\* TRUE when to_int_price(x) raises ValueError
PriceRaises(x) == x.k # "num"

to_int_price(x) == Truncate(x.v)

\* what to_int_price is applied to: None, a non-numeric value, or a decimal
\* given in 1/FracDen units, the two documented examples included
PriceInputs ==
  {RawAbsent, RawNull, RawBad}
    \cup {RawNum(n) : n \in (0 - MaxRaw) .. MaxRaw}
    \cup {RawNum(1157100 * FracDen), RawNum(1157100 * FracDen + (FracDen - 1))}

\* ----------------------------------------------------------- parse_chat_id
\* a string is the sequence of its characters
Chars == {" ", "@", "-", "1", "2", "a"}
Digits == {"1", "2"}

RECURSIVE StringsOf(_)
StringsOf(n) ==
  IF n = 0 THEN {<<>>}
  ELSE LET shorter == StringsOf(n - 1) IN
         shorter \cup {Append(w, c) : w \in {x \in shorter : Len(x) = n - 1}, c \in Chars}

\* CHANNEL_USERNAME: unset (None) or a string
ChatInputs ==
  {[isnone |-> TRUE, s |-> <<>>]}
    \cup {[isnone |-> FALSE, s |-> w] : w \in StringsOf(MaxChatLen)}

RECURSIVE LStrip(_)
LStrip(w) == IF w # <<>> /\ w[1] = " " THEN LStrip(Tail(w)) ELSE w

RECURSIVE RStrip(_)
RStrip(w) ==
  IF w # <<>> /\ w[Len(w)] = " " THEN RStrip(SubSeq(w, 1, Len(w) - 1)) ELSE w

StripKept(w) == w

\* value.strip()
Strip(w) == RStrip(LStrip(w))

\* TRUE when int(v) raises ValueError: v is not an optionally signed run
\* of digits
IntRaises(v) ==
  LET body == IF v # <<>> /\ v[1] = "-" THEN Tail(v) ELSE v IN
    body = <<>> \/ \E i \in 1 .. Len(body) : body[i] \notin Digits

DigitValue(c) == IF c = "1" THEN 1 ELSE 2

RECURSIVE DigitsValue(_)
DigitsValue(w) ==
  IF w = <<>> THEN 0
  ELSE 10 * DigitsValue(SubSeq(w, 1, Len(w) - 1)) + DigitValue(w[Len(w)])

\* int(v) for a v it accepts
IntValue(v) == IF v[1] = "-" THEN 0 - DigitsValue(Tail(v)) ELSE DigitsValue(v)

ChatNone == [kind |-> "none", s |-> <<>>, n |-> 0]
ChatStr(w) == [kind |-> "str", s |-> w, n |-> 0]
ChatInt(n) == [kind |-> "int", s |-> <<>>, n |-> n]

parse_chat_id(value) ==
  IF value.isnone THEN ChatNone
  ELSE IF value.s = <<>> THEN ChatStr(value.s)
  ELSE LET v == Strip(value.s) IN
         IF v # <<>> /\ v[1] = "@" THEN ChatStr(v)
         ELSE IF IntRaises(v) THEN ChatStr(v)
         ELSE ChatInt(IntValue(v))

\* ---------------------------------------------------------- fetch results
Result(l, bb, bs, b) == [latest |-> l, best_buy |-> bb, best_sell |-> bs, backoff |-> b]

Failure == Result(None, None, None, 0)
RateLimited(b) == Result(None, None, None, b)

BackOffValueDropped(body) == 0

\* int(data.get("backOff", 0) or 0)
BackOffRaises(body) == body.backOff.k = "bad"
BackOffValue(body) == IF body.backOff.k = "num" THEN body.backOff.v ELSE 0

HttpRaisesBut429(r) == r.t # "http" \/ (r.code >= 400 /\ r.code # 429)

\* requests.get / requests.post raising, or r.raise_for_status() raising
HttpRaises(r) == r.t # "http" \/ r.code >= 400

PairRaises(body) ==
  PriceRaises(body.latest) \/ PriceRaises(body.bestBuy) \/ PriceRaises(body.bestSell)

PairQuoteWithBackOff(body) ==
  Result(Some(to_int_price(body.latest)), Some(to_int_price(body.bestBuy)),
         Some(to_int_price(body.bestSell)), BackOffValue(body))

\* return latest, best_buy, best_sell, 0
PairQuote(body) ==
  Result(Some(to_int_price(body.latest)), Some(to_int_price(body.bestBuy)),
         Some(to_int_price(body.bestSell)), 0)

\* --------------------------------------------------------- fetch_price_sync
\* except Exception at the end of the primary attempt
PrimaryCatches(exc) == TRUE

FallbackCatchesTransport(exc) == exc \in {"RequestException", "HTTPError"}

\* except Exception at the end of the fallback attempt
FallbackCatches(exc) == TRUE

Returned(res) == [end |-> "returned", exc |-> "none", res |-> res]
Raised(exc) == [end |-> "exception", exc |-> exc, res |-> Failure]
NoPair == [end |-> "nopair", exc |-> "none", res |-> Failure]

\* the body of the first try block once requests.get has answered with r
PrimaryOutcome(r) ==
  IF HttpRaises(r)
    THEN Raised(IF r.t # "http" THEN "RequestException" ELSE "HTTPError")
  ELSE IF r.body.shape = "nonjson" THEN Raised("JSONDecodeError")
  ELSE IF r.body.shape = "dict" /\ r.body.status \notin {"absent", "ok"}
    THEN IF BackOffRaises(r.body) THEN Raised("ValueError")
         ELSE Returned(RateLimited(BackOffValue(r.body)))
  ELSE IF r.body.shape # "dict" \/ r.body.stats = "absent" THEN NoPair
  ELSE IF r.body.stats = "nondict" THEN Raised("AttributeError")
  ELSE IF r.body.stats = "nopair" THEN NoPair
  ELSE IF PairRaises(r.body) THEN Raised("ValueError")
  ELSE Returned(PairQuote(r.body))

\* the body of the second try block once requests.post has answered with r
FallbackOutcome(r) ==
  IF HttpRaises(r)
    THEN Raised(IF r.t # "http" THEN "RequestException" ELSE "HTTPError")
  ELSE IF r.body.shape = "nonjson" THEN Raised("JSONDecodeError")
  ELSE IF r.body.shape # "dict" THEN Raised("AttributeError")
  ELSE IF r.body.status # "ok"
    THEN IF BackOffRaises(r.body) THEN Raised("ValueError")
         ELSE Returned(RateLimited(BackOffValue(r.body)))
  ELSE IF r.body.stats = "nondict" THEN Raised("AttributeError")
  ELSE IF r.body.stats \in {"absent", "nopair"} THEN Raised("ValueError")
  ELSE IF PairRaises(r.body) THEN Raised("ValueError")
  ELSE Returned(PairQuote(r.body))

\* ------------------------------------------------------------------- main
BackoffTakenAtZero(b) == b >= 0

BackoffTakenWhenTruthy(b) == b # 0

\* if backoff and backoff > 0
BackoffTaken(b) == b # 0 /\ b > 0

\* (latest - prev_latest) / prev_latest raising OverflowError
PctChangeRaises(prev, latest) ==
  /\ prev # None
  /\ prev[1] # 0
  /\ Abs(latest - prev[1]) >= FloatMax * Abs(prev[1])

DeviatesStrictly(prev, latest) ==
  Abs(latest - prev) * 100 * ThresholdDen > ThresholdNum * Abs(prev)

\* abs((latest - prev) / prev * 100.0) >= THRESHOLD_PERCENT, for prev # 0
Deviates(prev, latest) ==
  Abs(latest - prev) * 100 * ThresholdDen >= ThresholdNum * Abs(prev)

ShouldAlertOnFirst(prev, latest) ==
  \/ prev = None
  \/ prev[1] # 0 /\ Deviates(prev[1], latest)

ShouldAlertUnguarded(prev, latest) ==
  /\ prev # None
  /\ Deviates(prev[1], latest)

\* the two nested conditions that guard send_message
ShouldAlert(prev, latest) ==
  /\ prev # None
  /\ prev[1] # 0
  /\ Deviates(prev[1], latest)

NextPrevOnAlert(prev, latest) ==
  IF prev = None \/ (prev[1] # 0 /\ Deviates(prev[1], latest)) THEN Some(latest)
  ELSE prev

\* prev_latest = latest
NextPrev(prev, latest) == Some(latest)

StoredAfterTickForgets(prev, latest) ==
  IF latest # None THEN Some(latest[1]) ELSE None

\* prev_latest after a tick that does not alert: assigned only inside
\* if latest is not None
StoredAfterTick(prev, latest) ==
  IF latest # None THEN NextPrev(prev, latest[1]) ELSE prev

AfterBackoffSleepFallsThrough == "decide"

\* continue after the back-off sleep: the next statement is the fetch
AfterBackoffSleep == "fetch"

AfterSendAgain == "send"

\* after send_message has returned: prev_latest = latest, then the sleep
AfterSend == "sleep"

\* except Exception inside send_message
SendCatches(exc) == TRUE

VARIABLES
  pc,           \* position of main: fetch, decide, send, sleep, sleep_backoff, crashed
  prev_latest,  \* main's prev_latest
  result,       \* <<>> or <<the tuple the current fetch_price_sync call returned>>
  fpc,          \* position of fetch_price_sync: idle, fallback, returned, raised
  requests,     \* the HTTP requests the current call has issued, in order
  primary_end,  \* how the first try block of the current call ended
  resp,         \* the response the current call returned on
  last_http,    \* HTTP status code of the response handled last, 0 if none
  sleep_for,    \* argument of the asyncio.sleep in progress
  slept,        \* seconds slept since the current tick's fetch was started
  sent,         \* latest prices of the messages handed to the sink this tick
  tick_prev,    \* prev_latest when the current tick started
  alerted,      \* price of the last alert, or the first stored price
  observed,     \* latest of the last successful quote
  tick_obs,     \* observed when the current tick started
  primary_signalled, \* the GET was answered 200 with a status other than
                     \* ok and a backOff that int() accepts
  arg,          \* argument of the function applied on its own
  ret,          \* <<>> or <<what that function returned or raised>>
  naps,         \* asyncio.sleep calls completed since the last fetch started
  log,          \* history kept while log.on: the quotes fetched and the
                \* alerts handed to the sink, oldest first
  http,         \* health-check thread: unstarted, off, listening, replied
  token,        \* BOT_TOKEN: unset, empty or set
  channel       \* CHANNEL_USERNAME: unset, empty or set

vars ==
  <<pc, prev_latest, result, fpc, requests, primary_end, resp, last_http,
    sleep_for, slept, sent, tick_prev, alerted, observed, tick_obs,
    primary_signalled, arg, ret, naps, log, http, token, channel>>

\* what the loop and the fetch never touch
aside == <<arg, ret, http, token, channel>>

\* the history is recorded from the start, or not at all
LogOff == [on |-> FALSE, quotes |-> <<>>, alerts |-> <<>>, gap |-> FALSE]
LogOn == [LogOff EXCEPT !.on = TRUE]

\* fetch_price_sync returned res (<<>> when it raised): a quote is
\* recorded, up to MaxQuotes of them; gap tells that a tick without a quote
\* came after the first recorded quote and before the last
LogFetch(l, res) ==
  IF ~l.on \/ res = <<>> THEN l
  ELSE IF res[1].latest = None
    THEN [l EXCEPT !.gap = @ \/ (0 < Len(l.quotes) /\ Len(l.quotes) < MaxQuotes)]
  ELSE IF Len(l.quotes) < MaxQuotes
    THEN [l EXCEPT !.quotes = Append(@, res[1].latest[1])]
  ELSE LogOff

\* send_message called for the quote q
LogSend(l, q) == IF l.on THEN [l EXCEPT !.alerts = Append(@, q)] ELSE l

loopvars == <<pc, prev_latest, sleep_for, alerted, observed>>

\* nothing fetched, slept or sent yet
Fresh ==
  /\ prev_latest = None
  /\ result = <<>>
  /\ fpc = "idle"
  /\ requests = <<>>
  /\ primary_end = "none"
  /\ resp = NoResp
  /\ last_http = 0
  /\ sleep_for = 0
  /\ slept = 0
  /\ sent = <<>>
  /\ tick_prev = None
  /\ alerted = None
  /\ observed = None
  /\ tick_obs = None
  /\ primary_signalled = FALSE
  /\ naps = 0

\* main after prev_latest = None, before the first fetch
InitLoop ==
  /\ pc = "fetch"
  /\ Fresh
  /\ http = "off"
  /\ token = "set"
  /\ channel = "set"

Init ==
  /\ InitLoop
  /\ arg = <<>>
  /\ ret = <<>>
  /\ log = LogOff

\* start of a tick: the values the tick is measured against
TickStart ==
  /\ slept' = 0
  /\ sent' = <<>>
  /\ tick_prev' = prev_latest
  /\ tick_obs' = observed
  /\ naps' = 0

\* await asyncio.to_thread(fetch_price_sync): in the worker thread
\* asyncio.get_event_loop() raises RuntimeError before requests.get is
\* reached; the first except clause catches it
CallFetch ==
  /\ pc = "fetch" /\ fpc = "idle"
  /\ TickStart
  /\ requests' = <<>>
  /\ primary_end' = "exception"
  /\ fpc' = IF PrimaryCatches("RuntimeError") THEN "fallback" ELSE "raised"
  /\ result' = <<>>
  /\ resp' = NoResp
  /\ last_http' = 0
  /\ primary_signalled' = FALSE
  /\ UNCHANGED log
  /\ UNCHANGED loopvars
  /\ UNCHANGED aside

\* fetch_price_sync called where asyncio.get_event_loop() succeeds: the GET
\* is issued and its response r handled by the first try block
FetchPrimary ==
  /\ pc = "fetch" /\ fpc = "idle"
  /\ TickStart
  /\ \E r \in Responses :
       LET o == PrimaryOutcome(r) IN
         /\ requests' = <<"GET">>
         /\ primary_end' = o.end
         /\ fpc' = IF o.end = "returned" THEN "returned"
                   ELSE IF o.end = "exception" /\ ~PrimaryCatches(o.exc) THEN "raised"
                   ELSE "fallback"
         /\ result' = IF o.end = "returned" THEN <<o.res>> ELSE <<>>
         /\ log' = LogFetch(log, IF o.end = "returned" THEN <<o.res>> ELSE <<>>)
         /\ resp' = IF o.end = "returned" THEN r ELSE NoResp
         /\ last_http' = r.code
         /\ primary_signalled' =
              (/\ r.t = "http" /\ r.code = 200 /\ r.body.shape = "dict"
               /\ r.body.status \notin {"absent", "ok"}
               /\ r.body.backOff.k # "bad")
  /\ UNCHANGED loopvars
  /\ UNCHANGED aside

\* the second try block: the POST is issued and its response, one of rs,
\* handled
Fallback(rs) ==
  /\ fpc = "fallback"
  /\ \E r \in rs :
       LET o == FallbackOutcome(r) IN
         /\ requests' = Append(requests, "POST")
         /\ fpc' = IF o.end = "exception" /\ ~FallbackCatches(o.exc) THEN "raised"
                   ELSE "returned"
         /\ result' = IF o.end = "exception" /\ ~FallbackCatches(o.exc) THEN <<>>
                      ELSE <<o.res>>
         /\ log' = LogFetch(log, IF o.end = "exception" /\ ~FallbackCatches(o.exc)
                                   THEN <<>> ELSE <<o.res>>)
         /\ resp' = r
         /\ last_http' = r.code
  /\ UNCHANGED <<primary_end, slept, sent, tick_prev, tick_obs,
                 primary_signalled, naps>>
  /\ UNCHANGED aside
  /\ UNCHANGED loopvars

FetchFallback == Fallback(Responses)

\* main resumes with the tuple (or the exception) of fetch_price_sync and
\* tests the back-off
Check ==
  /\ pc = "fetch" /\ fpc \in {"returned", "raised"}
  /\ fpc' = "idle"
  /\ resp' = NoResp
  /\ IF fpc = "raised"
       THEN pc' = "crashed" /\ sleep_for' = 0
       ELSE IF BackoffTaken(result[1].backoff)
         THEN pc' = "sleep_backoff" /\ sleep_for' = result[1].backoff
         ELSE pc' = "decide" /\ sleep_for' = 0
  /\ UNCHANGED <<prev_latest, result, requests, primary_end, last_http, slept,
                 sent, tick_prev, alerted, observed, tick_obs,
                 primary_signalled, naps, log>>
  /\ UNCHANGED aside

\* if latest is not None: ... up to the next await
Decide ==
  /\ pc = "decide"
  /\ LET latest == result[1].latest IN
       IF latest # None /\ PctChangeRaises(prev_latest, latest[1])
         THEN /\ pc' = "crashed"
              /\ UNCHANGED <<prev_latest, sleep_for, alerted, observed>>
       ELSE IF latest # None /\ ShouldAlert(prev_latest, latest[1])
         THEN /\ pc' = "send"
              /\ UNCHANGED <<prev_latest, sleep_for, alerted, observed>>
         ELSE /\ pc' = "sleep"
              /\ sleep_for' = INTERVAL_SECONDS
              /\ prev_latest' = StoredAfterTick(prev_latest, latest)
              /\ alerted' = IF latest # None /\ prev_latest = None THEN latest
                            ELSE alerted
              /\ observed' = IF latest # None THEN latest ELSE observed
  /\ UNCHANGED <<result, fpc, requests, primary_end, resp, last_http, slept,
                 sent, tick_prev, tick_obs,
                 primary_signalled, naps, log>>
  /\ UNCHANGED aside

\* await send_message(...): the sink delivers or raises, then the baseline
\* is stored and the interval sleep begins
Send ==
  /\ pc = "send"
  /\ \E outcome \in {"delivered", "TelegramError"} :
       pc' = IF outcome = "delivered" \/ SendCatches(outcome) THEN AfterSend ELSE "crashed"
  /\ sent' = Append(sent, result[1].latest[1])
  /\ log' = LogSend(log, result[1].latest[1])
  /\ prev_latest' = NextPrev(prev_latest, result[1].latest[1])
  /\ alerted' = result[1].latest
  /\ observed' = result[1].latest
  /\ sleep_for' = INTERVAL_SECONDS
  /\ UNCHANGED <<result, fpc, requests, primary_end, resp, last_http, slept,
                 tick_prev, tick_obs,
                 primary_signalled, naps>>
  /\ UNCHANGED aside

\* the asyncio.sleep in progress ends
Wake ==
  /\ pc \in {"sleep", "sleep_backoff"}
  /\ slept' = slept + sleep_for
  /\ naps' = naps + 1
  /\ sleep_for' = 0
  /\ pc' = IF pc = "sleep_backoff" THEN AfterBackoffSleep ELSE "fetch"
  /\ UNCHANGED <<prev_latest, result, fpc, requests, primary_end, resp,
                 last_http, sent, tick_prev, alerted, observed, tick_obs,
                 primary_signalled, log>>
  /\ UNCHANGED aside

Next == CallFetch \/ FetchFallback \/ Check \/ Decide \/ Send \/ Wake

Spec == Init /\ [][Next]_vars

\* fetch_price_sync reached from a thread that has an event loop as well
NextFetch == Next \/ FetchPrimary

FetchSpec == Init /\ [][NextFetch]_vars

\* to_int_price applied to one value
InitPrice == InitLoop /\ arg \in PriceInputs /\ ret = <<>> /\ log = LogOff

CallToIntPrice ==
  /\ ret = <<>>
  /\ ret' = IF PriceRaises(arg) THEN <<[raised |-> TRUE, v |-> 0]>>
            ELSE <<[raised |-> FALSE, v |-> to_int_price(arg)]>>
  /\ UNCHANGED <<pc, prev_latest, result, fpc, requests, primary_end, resp,
                 last_http, sleep_for, slept, sent, tick_prev, alerted,
                 observed, tick_obs, primary_signalled, arg, naps, log,
                 http, token, channel>>

PriceSpec == InitPrice /\ [][CallToIntPrice]_vars

\* parse_chat_id applied to one value of CHANNEL_USERNAME
InitChat == InitLoop /\ arg \in ChatInputs /\ ret = <<>> /\ log = LogOff

CallParseChatId ==
  /\ ret = <<>>
  /\ ret' = <<parse_chat_id(arg)>>
  /\ UNCHANGED <<pc, prev_latest, result, fpc, requests, primary_end, resp,
                 last_http, sleep_for, slept, sent, tick_prev, alerted,
                 observed, tick_obs, primary_signalled, arg, naps, log,
                 http, token, channel>>

ChatSpec == InitChat /\ [][CallParseChatId]_vars

\* the whole process: __main__ starts the health-check thread and runs
\* main, whose configuration is any of the nine cases; the upstream can
\* also answer with a quote as large as HugePrice
ConfigValues == {"unset", "empty", "set"}

InitProcess ==
  /\ pc = "startup"
  /\ Fresh
  /\ http = "unstarted"
  /\ token \in ConfigValues
  /\ channel \in ConfigValues
  /\ arg = <<>>
  /\ ret = <<>>
  /\ log = LogOff

\* main up to the loop: if not BOT_TOKEN or not CHANNEL_USERNAME: raise
Startup ==
  /\ pc = "startup"
  /\ pc' = IF token # "set" \/ channel # "set" THEN "crashed" ELSE "fetch"
  /\ UNCHANGED <<prev_latest, result, fpc, requests, primary_end, resp,
                 last_http, sleep_for, slept, sent, tick_prev, alerted,
                 observed, tick_obs, primary_signalled, naps, log>>
  /\ UNCHANGED aside

\* run_http_server_if_needed in its thread: returns when PORT is not set,
\* serves otherwise
HealthStart ==
  /\ http = "unstarted"
  /\ \E port \in {"unset", "set"} :
       http' = IF port = "unset" THEN "off" ELSE "listening"
  /\ UNCHANGED <<pc, prev_latest, result, fpc, requests, primary_end, resp,
                 last_http, sleep_for, slept, sent, tick_prev, alerted,
                 observed, tick_obs, primary_signalled, arg, ret, naps, log,
                 token, channel>>

\* home(): GET / answered "Bot is running!"
Home ==
  /\ http \in {"listening", "replied"}
  /\ http' = "replied"
  /\ UNCHANGED <<pc, prev_latest, result, fpc, requests, primary_end, resp,
                 last_http, sleep_for, slept, sent, tick_prev, alerted,
                 observed, tick_obs, primary_signalled, arg, ret, naps, log,
                 token, channel>>

FetchFallbackAny == Fallback(Responses \cup {HugeResponse})

NextProcess ==
  \/ Startup \/ HealthStart \/ Home
  \/ CallFetch \/ FetchFallbackAny \/ Check \/ Decide \/ Send \/ Wake

ProcessSpec == InitProcess /\ [][NextProcess]_vars

\* the loop with its history recorded
InitHistory ==
  /\ InitLoop
  /\ arg = <<>>
  /\ ret = <<>>
  /\ log = LogOn

HistorySpec == InitHistory /\ [][Next]_vars

\* ================================================================ claims
\* a tick has been decided and its interval sleep has begun
Decided == pc = "sleep" /\ result # <<>>

\* the tick's fetch returned a quote
Quoted == result[1].latest # None

\* the tick's quote
Q == result[1].latest[1]

\* |q - p| / p * 100 >= THRESHOLD_PERCENT, for a baseline p > 0
ReachesThreshold(p, q) == Abs(q - p) * 100 * ThresholdDen >= ThresholdNum * p

\* main is between the decision on one fetch and the start of the next
BetweenFetches == fpc = "idle" /\ result # <<>> /\ pc # "crashed"

\* C1 (as stated): the first tick with a successful quote q sends exactly
\* one alert, for q, and sets the baseline to q.latest.
C1_FirstQuoteAlerts ==
  (Decided /\ Quoted /\ tick_prev = None)
    => (sent = <<Q>> /\ prev_latest = Some(Q))

\* C1 (amended): the first tick with a successful quote q sends no alert
\* and sets the stored price to q.latest.
C1_FirstQuoteSilent ==
  (Decided /\ Quoted /\ tick_prev = None)
    => (sent = <<>> /\ prev_latest = Some(Q))

C1_Witness ==
  /\ Decided /\ Quoted /\ tick_prev = None
  /\ prev_latest = Some(Q)

\* C2: with a non-zero stored price p, a tick with quote q sends an alert
\* iff |q - p| / p * 100 >= threshold, the boundary included, and after an
\* alert the stored price is q.latest.
C2_AlertIffThreshold ==
  (Decided /\ Quoted /\ tick_prev # None /\ tick_prev # Some(0))
    => /\ (sent # <<>>) <=> ReachesThreshold(tick_prev[1], Q)
       /\ (sent # <<>>) => (sent = <<Q>> /\ prev_latest = Some(Q))

\* an alert sent exactly at the threshold
C2_Witness ==
  /\ Decided /\ Quoted /\ tick_prev # None /\ tick_prev # Some(0)
  /\ Abs(Q - tick_prev[1]) * 100 * ThresholdDen = ThresholdNum * tick_prev[1]
  /\ sent = <<Q>>
  /\ prev_latest = Some(Q)

\* C3 (as stated): a quote below the threshold sends no alert and leaves
\* the stored price unchanged, so the stored price is always the last
\* alerted (or first) price.
C3_BelowThresholdKeepsPrice ==
  (Decided /\ Quoted /\ tick_prev # None /\ tick_prev # Some(0)
     /\ ~ReachesThreshold(tick_prev[1], Q))
    => (sent = <<>> /\ prev_latest = tick_prev /\ prev_latest = alerted)

\* C3 (amended): a quote below the threshold sends no alert and the stored
\* price becomes that quote's latest; the stored price is written on every
\* successful quote, so between fetches it is the last observed price.
C3_BelowThresholdStoresQuote ==
  /\ (Decided /\ Quoted /\ tick_prev # None
        /\ ~(tick_prev # Some(0) /\ ReachesThreshold(tick_prev[1], Q)))
       => (sent = <<>> /\ prev_latest = Some(Q))
  /\ (BetweenFetches /\ pc \in {"sleep", "sleep_backoff", "fetch"})
       => prev_latest = observed

\* a quote below the threshold that differs from the stored price
C3_Witness ==
  /\ Decided /\ Quoted /\ tick_prev # None /\ tick_prev # Some(0)
  /\ ~ReachesThreshold(tick_prev[1], Q)
  /\ Q # tick_prev[1]
  /\ prev_latest = Some(Q)
  /\ alerted # prev_latest

\* C4 (as stated): moves below the threshold accumulate against the last
\* alerted price: a quote whose deviation from the last alerted price
\* reaches the threshold fires an alert.
C4_AccumulatesAgainstAlert ==
  (Decided /\ Quoted /\ tick_prev # None /\ sent = <<>>
     /\ alerted # None /\ alerted # Some(0))
    => ~ReachesThreshold(alerted[1], Q)

\* C4 (amended): moves below the threshold do not accumulate: a quote is
\* measured against the previous successful quote, and an alert fires iff
\* its deviation from that quote reaches the threshold.
C4_MeasuredAgainstPrevious ==
  (Decided /\ Quoted /\ tick_obs # None /\ tick_obs # Some(0))
    => ((sent # <<>>) <=> ReachesThreshold(tick_obs[1], Q))

\* a quote that has drifted past the threshold from the last alerted price
\* in steps below the threshold, and fires nothing
C4_Witness ==
  /\ Decided /\ Quoted /\ tick_obs # None /\ tick_obs # Some(0)
  /\ alerted # None /\ alerted # Some(0)
  /\ ReachesThreshold(alerted[1], Q)
  /\ ~ReachesThreshold(tick_obs[1], Q)
  /\ sent = <<>>

\* C5: after a fetch that returned backoff b > 0 main sleeps b seconds and
\* nothing more before the next fetch, sends no alert and leaves the stored
\* price unchanged.
C5_BackoffSleep ==
  (BetweenFetches /\ result[1].backoff > 0)
    => /\ pc \in {"sleep_backoff", "fetch"}
       /\ pc = "sleep_backoff" => (sleep_for = result[1].backoff /\ slept = 0)
       /\ pc = "fetch" => slept = result[1].backoff
       /\ sent = <<>>
       /\ prev_latest = tick_prev

C5_Witness ==
  /\ BetweenFetches /\ result[1].backoff > 0
  /\ pc = "fetch"
  /\ slept = result[1].backoff
  /\ slept # INTERVAL_SECONDS

\* C6: after a fetch that returned the failure outcome, in the
\* uninitialized and in the tracking state, the stored price is unchanged,
\* no alert is sent and main sleeps the configured interval.
C6_FailureTick ==
  (BetweenFetches /\ result[1] = Failure)
    => /\ pc \in {"decide", "sleep", "fetch"}
       /\ pc = "sleep" => (sleep_for = INTERVAL_SECONDS /\ slept = 0)
       /\ pc = "fetch" => slept = INTERVAL_SECONDS
       /\ sent = <<>>
       /\ prev_latest = tick_prev

\* a failure tick in the tracking state, slept through
C6_Witness ==
  /\ BetweenFetches /\ result[1] = Failure
  /\ tick_prev # None
  /\ pc = "fetch"
  /\ slept = INTERVAL_SECONDS
  /\ prev_latest = tick_prev

\* ------------------------------------------------------- fetch_price_sync
\* the call has returned on the response resp
FetchReturned == fpc = "returned" /\ result # <<>> /\ resp # NoResp

\* a 200 response whose JSON object carries a status other than "ok"
NonOkStatus(r) ==
  /\ r.t = "http" /\ r.code = 200 /\ r.body.shape = "dict"
  /\ r.body.status \notin {"absent", "ok"}

\* the errors a response can show: network error, timeout, HTTP error
\* status, non-JSON body, non-object JSON, unparsable backOff next to a
\* non-ok status, missing stats or pair, missing or unparsable price field
ErrorResponse(r) ==
  \/ r.t \in {"neterr", "timeout"}
  \/ r.code >= 400
  \/ r.body.shape \in {"nonjson", "list"}
  \/ NonOkStatus(r) /\ r.body.backOff.k = "bad"
  \/ /\ r.body.shape = "dict" /\ r.body.status \in {"absent", "ok"}
     /\ \/ r.body.stats # "pair"
        \/ \E f \in {r.body.latest, r.body.bestBuy, r.body.bestSell} : f.k # "num"

\* the response handled last answered the POST
OnFallback == Len(requests) > 0 /\ requests[Len(requests)] = "POST"

\* a body without a status field whose backOff is a non-zero number
StatuslessBackOff(r) ==
  /\ r.t = "http" /\ r.code = 200 /\ r.body.shape = "dict"
  /\ r.body.status = "absent"
  /\ r.body.backOff.k = "num" /\ r.body.backOff.v # 0

\* one of the three outcomes: a quote, rate-limited, failure
WellFormed(res) ==
  \/ res.latest # None /\ res.best_buy # None /\ res.best_sell # None /\ res.backoff = 0
  \/ res.latest = None /\ res.best_buy = None /\ res.best_sell = None

NeverRaises == fpc # "raised" /\ pc # "crashed"

\* C7 (as stated): fetch never raises, returns one of the three outcomes,
\* and every error response that leaves no quote yields the failure
\* outcome (no prices, backoff 0).
C7_ErrorsYieldFailure ==
  /\ NeverRaises
  /\ FetchReturned => WellFormed(result[1])
  /\ (FetchReturned /\ ErrorResponse(resp)) => result[1] = Failure

\* C7 (amended): as stated, except that a fallback body without a status
\* field is handled as a non-ok status: with a non-zero backOff the call
\* returns (no prices, that backOff) instead of the failure outcome.
C7_ErrorsYieldFailureOrBackOff ==
  /\ NeverRaises
  /\ FetchReturned => WellFormed(result[1])
  /\ (FetchReturned /\ ErrorResponse(resp)
        /\ ~(OnFallback /\ StatuslessBackOff(resp)))
       => result[1] = Failure
  /\ (FetchReturned /\ OnFallback /\ StatuslessBackOff(resp))
       => result[1] = RateLimited(resp.body.backOff.v)

\* the GET failed and the POST was answered with an unparsable price
C7_Witness ==
  /\ FetchReturned
  /\ requests = <<"GET", "POST">>
  /\ primary_end = "exception"
  /\ resp.body.stats = "pair" /\ resp.body.status = "ok"
  /\ resp.body.bestSell.k = "bad"
  /\ result[1] = Failure

\* what C8 takes a 429 to carry: the body's backOff, or 60 seconds
Backoff429(r) == IF r.body.backOff.k = "num" THEN r.body.backOff.v ELSE 60

\* C8 (as stated): a 429 answer makes fetch return the rate-limited outcome
\* with the body's backOff, 60 by default, and main sleeps that long.
C8_TooManyRequestsBacksOff ==
  (FetchReturned /\ resp.code = 429) => result[1] = RateLimited(Backoff429(resp))

\* C8 (amended): a 429 is handled like any other HTTP error and its body
\* is not read: from the primary endpoint the call goes on to the
\* fallback, from the fallback endpoint the call returns the failure
\* outcome, and main's next sleep is the configured interval.
C8_TooManyRequestsIsFailure ==
  /\ (last_http = 429 /\ requests = <<"GET">>)
       => (fpc = "fallback" /\ result = <<>>)
  /\ (last_http = 429 /\ OnFallback)
       => /\ result = <<Failure>>
          /\ pc \in {"fetch", "decide", "sleep"}
          /\ pc = "sleep" => sleep_for = INTERVAL_SECONDS
          /\ (pc = "fetch" /\ fpc = "idle") => slept = INTERVAL_SECONDS

\* both endpoints answered 429 and main sleeps the interval
C8_Witness ==
  /\ last_http = 429
  /\ requests = <<"GET", "POST">>
  /\ primary_end = "exception"
  /\ result = <<Failure>>
  /\ pc = "sleep" /\ sleep_for = INTERVAL_SECONDS

\* the backOff a body carries, 0 when it carries none
CarriedBackOff(r) == IF r.body.backOff.k = "num" THEN r.body.backOff.v ELSE 0

\* C9: a 200 body with a status other than "ok" and a backOff that is an
\* integer, null or absent makes fetch return no prices and that backOff
\* (0 by default), from either endpoint, and after such a primary answer
\* the fallback is not contacted.
C9_NonOkStatusReturnsBackOff ==
  /\ (FetchReturned /\ NonOkStatus(resp) /\ resp.body.backOff.k # "bad")
       => result[1] = RateLimited(CarriedBackOff(resp))
  /\ primary_signalled
       => (requests = <<"GET">> /\ fpc # "fallback" /\ primary_end = "returned")

\* the primary answered with a non-ok status and a positive backOff
C9_Witness ==
  /\ FetchReturned /\ NonOkStatus(resp)
  /\ requests = <<"GET">>
  /\ primary_signalled
  /\ resp.body.backOff.k = "num" /\ resp.body.backOff.v > 0
  /\ result[1] = RateLimited(resp.body.backOff.v)

\* C10: a fetch call issues exactly one primary GET and at most one
\* fallback POST, the POST only after the primary attempt ended without a
\* result; no endpoint is contacted twice and the fallback is never
\* contacted after the primary returned a quote.
C10_OneGetAtMostOnePost ==
  /\ fpc = "returned" => requests \in {<<"GET">>, <<"GET", "POST">>}
  /\ requests = <<"GET", "POST">> => primary_end \in {"nopair", "exception"}
  /\ primary_end = "returned" => requests = <<"GET">>

\* ------------------------------------------------------ zero baseline
\* C14 (as stated): with the stored price 0, a tick with a quote sends no
\* alert and leaves the stored price unchanged.
C14_ZeroBaselineKept ==
  (Decided /\ Quoted /\ tick_prev = Some(0))
    => (sent = <<>> /\ prev_latest = tick_prev)

\* C14 (amended): with the stored price 0, a tick with a quote divides
\* nothing and sends no alert (main never waits on the sink), and the
\* stored price becomes the quote's latest.
C14_ZeroBaselineReplaced ==
  /\ (pc = "send" /\ result # <<>>) => tick_prev # Some(0)
  /\ (Decided /\ Quoted /\ tick_prev = Some(0))
       => (sent = <<>> /\ prev_latest = Some(Q))

\* a non-zero quote taken after the stored price 0
C14_Witness ==
  /\ Decided /\ Quoted /\ tick_prev = Some(0)
  /\ Q # 0
  /\ sent = <<>>
  /\ prev_latest = Some(Q)

\* ------------------------------------------------------- returned tuples
\* C18: every tuple fetch_price_sync returns has either three integer
\* prices and backoff 0, or three None prices.
C18_ReturnsWellFormed ==
  (fpc = "returned" /\ result # <<>>)
    => LET res == result[1] IN
         \/ /\ res.latest # None /\ res.best_buy # None /\ res.best_sell # None
            /\ res.backoff = 0
         \/ res.latest = None /\ res.best_buy = None /\ res.best_sell = None

\* a quote returned from a body that also carries a backOff
C18_Witness ==
  /\ fpc = "returned" /\ result # <<>> /\ resp # NoResp
  /\ result[1].latest # None
  /\ result[1].backoff = 0
  /\ resp.body.backOff.k = "num" /\ resp.body.backOff.v > 0

\* -------------------------------------------------- no sleep without pause
\* C20: main never sleeps a zero or negative time: a tick whose fetch
\* returned no prices and a backoff that is 0 or negative sends no alert,
\* leaves the stored price unchanged and sleeps the configured interval.
C20_NoEmptySleep ==
  /\ pc \in {"sleep", "sleep_backoff"} => sleep_for > 0
  /\ (BetweenFetches /\ result[1].latest = None /\ result[1].backoff <= 0)
       => /\ pc \in {"decide", "sleep", "fetch"}
          /\ pc = "sleep" => sleep_for = INTERVAL_SECONDS
          /\ pc = "fetch" => slept = INTERVAL_SECONDS
          /\ sent = <<>>
          /\ prev_latest = tick_prev

\* a negative backOff, slept through as the interval
C20_Witness ==
  /\ BetweenFetches /\ result[1].latest = None /\ result[1].backoff < 0
  /\ pc = "fetch"
  /\ slept = INTERVAL_SECONDS

\* ----------------------------------------------------------- to_int_price
\* C15: to_int_price drops the fraction of a decimal toward zero and never
\* rounds its magnitude up (1157100.0000000000 and 1157100.999 both give
\* 1157100); None and a non-numeric value raise instead of giving a price.
C15_TruncatesTowardZero ==
  ret # <<>> =>
    /\ arg.k # "num" => ret[1].raised
    /\ arg.k = "num" =>
         /\ ~ret[1].raised
         /\ Abs(ret[1].v) * FracDen <= Abs(arg.v)
         /\ Abs(arg.v) < (Abs(ret[1].v) + 1) * FracDen
         /\ arg.v >= 0 => ret[1].v >= 0
         /\ arg.v <= 0 => ret[1].v <= 0
    /\ arg \in {RawNum(1157100 * FracDen), RawNum(1157100 * FracDen + (FracDen - 1))}
         => ret[1].v = 1157100

\* 1157100.999 parsed
C15_Witness ==
  /\ ret # <<>>
  /\ arg = RawNum(1157100 * FracDen + (FracDen - 1))
  /\ ret[1] = [raised |-> FALSE, v |-> 1157100]

\* ---------------------------------------------------------- parse_chat_id
\* the characters of w from its first to its last non-blank one
Trimmed(w) ==
  LET solid == {i \in 1 .. Len(w) : w[i] # " "} IN
    IF solid = {} THEN <<>>
    ELSE SubSeq(w, CHOOSE i \in solid : \A j \in solid : i <= j,
                   CHOOSE i \in solid : \A j \in solid : i >= j)

\* the decimal numeral of an integer
RECURSIVE Numeral(_)
Numeral(n) ==
  IF n < 0 THEN <<"-">> \o Numeral(0 - n)
  ELSE IF n < 10 THEN <<IF n = 1 THEN "1" ELSE IF n = 2 THEN "2" ELSE "?">>
  ELSE Numeral(n \div 10) \o Numeral(n % 10)

\* w is an integer numeral: an optional minus sign and digits
IsNumeral(w) ==
  /\ w # <<>>
  /\ w # <<"-">>
  /\ \A i \in 1 .. Len(w) : w[i] \in Digits \/ (i = 1 /\ w[i] = "-")

\* C17: a destination that after trimming begins with "@" is returned as
\* that string, one that is an integer numeral is returned as the integer
\* it denotes, and any other value is returned as a string.
C17_ParsesDestination ==
  (ret # <<>> /\ ~arg.isnone /\ arg.s # <<>>) =>
    LET v == Trimmed(arg.s) IN
      /\ (v # <<>> /\ v[1] = "@") => ret[1] = ChatStr(v)
      /\ IsNumeral(v) => (ret[1].kind = "int" /\ Numeral(ret[1].n) = v)
      /\ ~IsNumeral(v) => ret[1].kind = "str"

\* a padded channel handle returned without its padding
C17_Witness ==
  /\ ret # <<>> /\ ~arg.isnone
  /\ arg.s # Trimmed(arg.s)
  /\ Trimmed(arg.s) # <<>>
  /\ Trimmed(arg.s)[1] = "@"
  /\ Len(Trimmed(arg.s)) > 1
  /\ ret[1] = ChatStr(Trimmed(arg.s))

\* ------------------------------------------------------ history of a run
\* the fetch of the current tick is over and so is what main does with it
TickOver == fpc = "idle" /\ pc \in {"fetch", "sleep", "sleep_backoff"}

\* the alerts an engine fed the quotes qs alone sends
RECURSIVE AlertsOf(_)
AlertsOf(qs) ==
  IF Len(qs) <= 1 THEN <<>>
  ELSE LET p == qs[Len(qs) - 1]
           q == qs[Len(qs)]
       IN AlertsOf(SubSeq(qs, 1, Len(qs) - 1))
            \o (IF p # 0 /\ ReachesThreshold(p, q) THEN <<q>> ELSE <<>>)

\* the price that engine ends with
LastOf(qs) == IF qs = <<>> THEN None ELSE Some(qs[Len(qs)])

\* C16: the alerts sent and the stored last price are determined by the
\* subsequence of successful quotes alone, so two outcome sequences with the
\* same quotes that differ in interleaved failure or rate-limited ticks
\* give the same alerts and the same stored price.
C16_QuotesDetermineAlerts ==
  (log.on /\ TickOver) =>
    /\ log.alerts = AlertsOf(log.quotes)
    /\ prev_latest = LastOf(log.quotes)

\* an alert for a quote that followed a tick without a quote
C16_Witness ==
  /\ log.on /\ TickOver /\ log.gap
  /\ Len(log.quotes) = MaxQuotes
  /\ log.alerts # <<>>
  /\ log.alerts[Len(log.alerts)] = log.quotes[Len(log.quotes)]
  /\ prev_latest = LastOf(log.quotes)

\* C19: the sink is invoked at most once per tick and only on a tick whose
\* fetch returned a quote, never on a failure or rate-limited tick, and
\* the sends never outnumber the successful fetches.
C19_SendsNeedQuotes ==
  /\ Len(sent) <= 1
  /\ sent # <<>> => (result # <<>> /\ Quoted /\ result[1].backoff = 0 /\ sent = <<Q>>)
  /\ (result # <<>> /\ ~Quoted) => sent = <<>>
  /\ log.on => Len(log.alerts) <= Len(log.quotes)

\* one alert after two successful fetches
C19_Witness ==
  /\ log.on
  /\ sent # <<>>
  /\ Len(log.quotes) = 2
  /\ Len(log.alerts) = 1

\* ------------------------------------------------------------ the process
Configured == token = "set" /\ channel = "set"

\* C11: once the loop has started no per-tick error stops it: whatever the
\* fetch returns and whether the sink delivers or raises, main goes on to
\* its sleep and its next fetch.
C11_NoTickStopsLoop ==
  /\ Configured => pc # "crashed"
  /\ sent # <<>> => pc \in {"sleep", "fetch"}

\* C12: the loop is strictly serial: a fetch is outstanding only while main
\* awaits it, the decision and any alert are complete when the interval
\* sleep begins, exactly one sleep lies between two consecutive fetches,
\* and a step of the health-check thread leaves the loop's state alone.
C12_StrictlySerial ==
  /\ [](/\ fpc # "idle" => (pc = "fetch" /\ naps = 0 /\ sent = <<>>)
        /\ pc = "sleep" =>
             /\ fpc = "idle" /\ result # <<>>
             /\ Quoted => prev_latest = Some(Q)
             /\ (Quoted /\ tick_prev # None /\ tick_prev # Some(0)
                   /\ ReachesThreshold(tick_prev[1], Q)) => sent = <<Q>>
        /\ (pc = "fetch" /\ fpc = "idle")
             => naps = (IF result = <<>> THEN 0 ELSE 1)
        /\ naps <= 1)
  /\ [][http' # http =>
          UNCHANGED <<pc, prev_latest, result, fpc, requests, primary_end,
                      resp, last_http, sleep_for, slept, sent, tick_prev,
                      alerted, observed, tick_obs, primary_signalled, naps,
                      log, token, channel>>]_vars

\* the next fetch is due after an alert and one sleep, the health check
\* having been answered meanwhile
C12_Witness ==
  /\ pc = "fetch" /\ fpc = "idle" /\ result # <<>>
  /\ naps = 1
  /\ sent # <<>>
  /\ http = "replied"

\* C13: with the bot token or the destination unset or empty main raises
\* before the loop, having fetched and sent nothing, and main terminates in
\* no other case.
C13_OnlyStartupTerminates ==
  /\ (~Configured /\ pc # "startup")
       => (pc = "crashed" /\ result = <<>> /\ requests = <<>> /\ sent = <<>>)
  /\ pc = "crashed" => ~Configured

====
